---------------------------- MODULE Spec2Model ----------------------------
(***************************************************************************)
(* Model of labeller.py: the label classification and reconciliation pass  *)
(* over one Plex show (show -> seasons -> episodes), the change gate with  *)
(* its persisted update log, and the --clear mode.                         *)
(*                                                                         *)
(* Dates are day ordinals of 2024: day 1 is Monday 2024-01-01, day 60 is   *)
(* 2024-02-29.  A datetime is an instant: day * |TimesOfDay| + time of day.*)
(* Python's None / missing value is 0 for numbers and dates, "" for        *)
(* strings, and <<>> for an absent dictionary.                             *)
(***************************************************************************)
EXTENDS Integers, Sequences, FiniteSets, TLC

(***************************************************************************)
(* Configuration (labeller.py lines 16-22)                                 *)
(***************************************************************************)
DATE_FORMAT == "MM/DD"
DAY_INDICATOR == TRUE
DAYS_TO_CONSIDER == 7
RETURNING_DAYS == 28
SPECIAL_LABELS ==
    {"Pilot", "Season Premiere", "Season Finale", "Series Finale", "Mid-Season Finale"}
STATUS_LABELS == {"Status: Ended", "Status: Canceled", "Status: Returning Series"}

\* the date formatting options as the script ships them; a user edits them in place
DefaultConfig ==
    [DATE_FORMAT |-> DATE_FORMAT, DAY_INDICATOR |-> DAY_INDICATOR,
     DAYS_TO_CONSIDER |-> DAYS_TO_CONSIDER, RETURNING_DAYS |-> RETURNING_DAYS]

(***************************************************************************)
(* Bounds of the model                                                     *)
(***************************************************************************)
MaxRuns == 2
\* the first day of the model, a day ordinal of 2024
Day0 == 10

(***************************************************************************)
(* The Plex library: one show with a TMDb guid, its seasons and episodes.  *)
(***************************************************************************)
TmdbId == "1399"
OtherId == "999"
\* get_filtered_shows(): the shows of the library in its order; only one of them has
\* a tmdb:// guid, the others have none and carry no label
TrackedShow == "Game of Thrones"
AllShows == <<"Home Videos", TrackedShow, "Old Tapes">>
\* get_tmdb_id(show): "" is None
GetTmdbId(show) == IF show = TrackedShow THEN TmdbId ELSE ""
\* show.seasons() in library order, and the episode numbers season.episode() finds
PlexSeasonSeq == <<1, 2, 3>>
PlexSeasons == {PlexSeasonSeq[i] : i \in DOMAIN PlexSeasonSeq}
PlexEpisodes == {1, 2, 3}
ShowEnt == <<"show", 0, 0>>
SeasonEnt(s) == <<"season", s, 0>>
EpisodeEnt(s, e) == <<"episode", s, e>>
Entities ==
    {ShowEnt} \cup {SeasonEnt(s) : s \in PlexSeasons}
              \cup {EpisodeEnt(s, e) : s \in PlexSeasons, e \in PlexEpisodes}

(***************************************************************************)
(* String and date conversions                                             *)
(***************************************************************************)
\* str.startswith
StartsWith(l, p) == Len(l) >= Len(p) /\ SubSeq(l, 1, Len(p)) = p

\* str.lower() on the provider's status text
Lower(s) ==
    CASE s = "Ended" -> "ended"
      [] s = "Canceled" -> "canceled"
      [] s = "Returning Series" -> "returning series"
      [] s = "In Production" -> "in production"
      [] OTHER -> s

\* str.title() on the lower-cased status
Title(s) ==
    CASE s = "ended" -> "Ended"
      [] s = "canceled" -> "Canceled"
      [] s = "returning series" -> "Returning Series"
      [] s = "in production" -> "In Production"
      [] OTHER -> s

\* date.strftime("%A")
Weekday(d) ==
    LET k == (d - 1) % 7
    IN  CASE k = 0 -> "Monday"
          [] k = 1 -> "Tuesday"
          [] k = 2 -> "Wednesday"
          [] k = 3 -> "Thursday"
          [] k = 4 -> "Friday"
          [] k = 5 -> "Saturday"
          [] OTHER -> "Sunday"

MonthOf(d) == IF d <= 31 THEN 1 ELSE 2
DayOfMonth(d) == IF d <= 31 THEN d ELSE d - 31
Pad2(n) == IF n < 10 THEN "0" \o ToString(n) ELSE ToString(n)
\* date.strftime("%m/%d") and date.strftime("%d/%m")
StrfMonthDay(d) == Pad2(MonthOf(d)) \o "/" \o Pad2(DayOfMonth(d))
StrfDayMonth(d) == Pad2(DayOfMonth(d)) \o "/" \o Pad2(MonthOf(d))

\* a datetime of the given day; datetime.fromisoformat of a bare date is midnight
TimesOfDay == {0, 1}
Instant(day, tod) == day * Cardinality(TimesOfDay) + tod
Midnight(day) == Instant(day, 0)

(***************************************************************************)
(* The world a pass works on: the label store, the show object's cached    *)
(* labels (show.labels as of its last reload), the mutations issued, the   *)
(* entities on which Plex raises (broken), the entities on which a call    *)
(* raised (failed), and whether an exception is propagating (raised).      *)
(***************************************************************************)
Op(ent, op, label, by) == [ent |-> ent, op |-> op, label |-> label, by |-> by]

\* obj.removeLabel(l) for every l in ls
RemoveLabels(w, ent, ls, by) ==
    [w EXCEPT !.labels[ent] = @ \ ls,
              !.ops = @ \cup {Op(ent, "remove", l, by) : l \in ls}]

\* obj.addLabel(l)
AddLabel(w, ent, l, by) ==
    [w EXCEPT !.labels[ent] = @ \cup {l},
              !.ops = @ \cup {Op(ent, "add", l, by)}]

\* show.reload()
ReloadShow(w) == [w EXCEPT !.cache = w.labels[ShowEnt]]

\* a Plex call on ent raises, and nothing catches it before the per-show except
Raise(w, ent) == [w EXCEPT !.failed = @ \cup {ent}, !.raised = TRUE]

\* set_label(obj, label, prefix): the world after, and the returned flag
SetLabelRemoved(existing, label) == {l \in existing \cap SPECIAL_LABELS : l # label}
SetLabelAdds(existing, label) == label # "" /\ label \notin existing
SetLabel(w, ent, label) ==
    LET existing == w.labels[ent]
        removed == SetLabelRemoved(existing, label)
        w1 == RemoveLabels(w, ent, removed, "set_label")
        adds == SetLabelAdds(existing, label)
        w2 == IF adds THEN AddLabel(w1, ent, label, "set_label") ELSE w1
    IN  IF ent \in w.broken THEN [w |-> Raise(w, ent), modified |-> FALSE]
        ELSE [w |-> w2, modified |-> (removed # {} \/ adds)]

\* remove_all_special_labels(obj, prefix)
RemoveAllSpecialLabels(w, ent) ==
    IF ent \in w.broken THEN Raise(w, ent)
    ELSE RemoveLabels(w, ent, w.labels[ent] \cap SPECIAL_LABELS,
                      "remove_all_special_labels")

\* set_episode_special_labels(episode, new_labels, prefix); its except clause catches
\* what a call on the episode raises and returns False
SetEpisodeSpecialLabels(w, ent, new_labels) ==
    LET existing_labels == w.labels[ent]
        removed == {l \in existing_labels \cap SPECIAL_LABELS : l \notin new_labels}
        added == {l \in new_labels : l \notin existing_labels}
        w1 == RemoveLabels(w, ent, removed, "set_episode_special_labels")
        w2 == [w1 EXCEPT !.labels[ent] = @ \cup added,
                         !.ops = @ \cup {Op(ent, "add", l, "set_episode_special_labels")
                                            : l \in added}]
    IN  IF ent \in w.broken
        THEN [w |-> [w EXCEPT !.failed = @ \cup {ent}], modified |-> FALSE]
        ELSE [w |-> w2, modified |-> (removed # {} \/ added # {})]


(***************************************************************************)
(* set_status_label (lines 163-226): the Upcoming label of the show and of *)
(* the latest season, then the Status label of the show.                   *)
(***************************************************************************)
\* the prefix test of lines 184, 192 and 203
IsUpcomingPrefixed(l) ==
    StartsWith(l, "New Episode") \/ StartsWith(l, "New Season") \/ StartsWith(l, "Returning")

\* the prefix test of line 214
IsReturningPrefixed(l) == StartsWith(l, "Returning")

\* faulty variant of lines 173-176: the weekday window is the New Episode window
FormattedDateInWindow(cfg, air_date, days_until) ==
    IF cfg.DAY_INDICATOR /\ days_until <= cfg.DAYS_TO_CONSIDER
    THEN Weekday(air_date)
    ELSE IF cfg.DATE_FORMAT = "MM/DD" THEN StrfMonthDay(air_date)
         ELSE StrfDayMonth(air_date)

\* lines 173-176
FormattedDate(cfg, air_date, days_until) ==
    IF cfg.DAY_INDICATOR /\ days_until <= 7
    THEN Weekday(air_date)
    ELSE IF cfg.DATE_FORMAT = "MM/DD" THEN StrfMonthDay(air_date)
         ELSE StrfDayMonth(air_date)

\* lines 181-188 / 189-196 / 200-207: reload, drop the prefixed labels, add the label
\* unless it was among the labels read
ReplaceUpcoming(w, ent, label) ==
    LET w0 == IF ent = ShowEnt THEN ReloadShow(w) ELSE w
        existing == w0.labels[ent]
        w1 == RemoveLabels(w0, ent, {l \in existing : IsUpcomingPrefixed(l)}, "set_status_label")
    IN  IF w.raised THEN w
        ELSE IF ent \in w.broken THEN Raise(w, ent)
        ELSE IF label \notin existing THEN AddLabel(w1, ent, label, "set_status_label")
        ELSE w1

\* lines 211-218
ReplaceReturning(w, label) ==
    LET w0 == ReloadShow(w)
        existing == w0.labels[ShowEnt]
        w1 == RemoveLabels(w0, ShowEnt, {l \in existing : IsReturningPrefixed(l)},
                           "set_status_label")
    IN  IF ShowEnt \in w.broken THEN Raise(w, ShowEnt)
        ELSE IF label \notin existing THEN AddLabel(w1, ShowEnt, label, "set_status_label")
        ELSE w1

\* faulty variant of lines 165-218: both windows end a day early
SetUpcomingLabelStrict(cfg, w, next_ep, latest_season, today) ==
    IF next_ep = <<>> THEN w
    ELSE LET air_date == next_ep[1].air_date
             season_number == next_ep[1].season_number
             episode_number == next_ep[1].episode_number
             days_until == air_date - today
             formatted_date == FormattedDate(cfg, air_date, days_until)
         IN  IF air_date = 0 \/ season_number = 0 \/ episode_number = 0 THEN w
             ELSE IF days_until < cfg.DAYS_TO_CONSIDER
             THEN IF season_number = latest_season /\ episode_number # 1
                  THEN LET label == "New Episode " \o formatted_date
                       IN  ReplaceUpcoming(ReplaceUpcoming(w, ShowEnt, label),
                                           SeasonEnt(latest_season), label)
                  ELSE ReplaceUpcoming(w, ShowEnt, "New Season " \o formatted_date)
             ELSE IF days_until < cfg.RETURNING_DAYS
             THEN ReplaceReturning(w, "Returning " \o formatted_date)
             ELSE w

\* lines 165-218
SetUpcomingLabel(cfg, w, next_ep, latest_season, today) ==
    IF next_ep = <<>> THEN w
    ELSE LET air_date == next_ep[1].air_date
             season_number == next_ep[1].season_number
             episode_number == next_ep[1].episode_number
             days_until == air_date - today
             formatted_date == FormattedDate(cfg, air_date, days_until)
         IN  IF air_date = 0 \/ season_number = 0 \/ episode_number = 0 THEN w
             ELSE IF days_until <= cfg.DAYS_TO_CONSIDER
             THEN IF season_number = latest_season /\ episode_number # 1
                  THEN LET label == "New Episode " \o formatted_date
                       IN  ReplaceUpcoming(ReplaceUpcoming(w, ShowEnt, label),
                                           SeasonEnt(latest_season), label)
                  ELSE ReplaceUpcoming(w, ShowEnt, "New Season " \o formatted_date)
             ELSE IF days_until <= cfg.RETURNING_DAYS
             THEN ReplaceReturning(w, "Returning " \o formatted_date)
             ELSE w

\* faulty variant of lines 219-226: removes what --clear removes from a show (line 107)
SetStatusPartAsClear(w, tmdb_status) ==
    LET existing == w.cache
        w1 == RemoveLabels(w, ShowEnt, existing \cap (SPECIAL_LABELS \cup STATUS_LABELS),
                           "set_status_label")
        status_label == "Status: " \o Title(tmdb_status)
        adds == tmdb_status # "" /\ status_label \notin existing
    IN  IF w.raised THEN w
        ELSE IF ShowEnt \in w.broken /\ (w1.ops # w.ops \/ adds) THEN Raise(w, ShowEnt)
        ELSE IF adds THEN AddLabel(w1, ShowEnt, status_label, "set_status_label")
        ELSE w1

\* lines 219-226: works on show.labels as last loaded
SetStatusPart(w, tmdb_status) ==
    LET existing == w.cache
        w1 == RemoveLabels(w, ShowEnt, existing \cap STATUS_LABELS, "set_status_label")
        status_label == "Status: " \o Title(tmdb_status)
        adds == tmdb_status # "" /\ status_label \notin existing
    IN  IF w.raised THEN w
        ELSE IF ShowEnt \in w.broken /\ (w1.ops # w.ops \/ adds) THEN Raise(w, ShowEnt)
        ELSE IF adds THEN AddLabel(w1, ShowEnt, status_label, "set_status_label")
        ELSE w1

SetStatusLabel(cfg, w, next_ep, tmdb_status, latest_season, today) ==
    SetStatusPart(SetUpcomingLabel(cfg, w, next_ep, latest_season, today), tmdb_status)

(***************************************************************************)
(* The schedule classification of the main loop (lines 336-391)            *)
(***************************************************************************)
\* lines 338-339
IsAired(ep, today) == ep.air_date # 0 /\ ep.air_date <= today
AiredEpisodes(tmdb_episodes, today) == SelectSeq(tmdb_episodes, LAMBDA ep : IsAired(ep, today))

\* line 346: max(..., key=episode_number) is the first episode with the largest number
LastEp(aired_episodes) ==
    LET idx == DOMAIN aired_episodes
        top == CHOOSE i \in idx :
                 /\ \A j \in idx : aired_episodes[j].episode_number
                                     <= aired_episodes[i].episode_number
                 /\ \A j \in idx : aired_episodes[j].episode_number
                                     = aired_episodes[i].episode_number => i <= j
    IN  aired_episodes[top]

\* faulty variant of lines 355-356 and 388-389: the series' status is not consulted
FinaleLabelOfSeason(season_index, final_season_index, tmdb_status) == "Season Finale"

\* lines 355-356 and 388-389
FinaleLabel(season_index, final_season_index, tmdb_status) ==
    IF season_index = final_season_index /\ tmdb_status \in {"ended", "canceled"}
    THEN "Series Finale" ELSE "Season Finale"

\* lines 347-357: the season's label from its last aired episode
SeasonCandidate(season_index, last_ep, final_season_index, tmdb_status) ==
    LET ep_type == Lower(last_ep.episode_type)
        ep_num == last_ep.episode_number
    IN  IF ep_num = 1 THEN (IF season_index = 1 THEN "Pilot" ELSE "Season Premiere")
        ELSE IF ep_type = "mid_season" THEN "Mid-Season Finale"
        ELSE IF ep_type = "finale"
             THEN FinaleLabel(season_index, final_season_index, tmdb_status)
        ELSE ""

\* faulty variant of lines 380-389: the episode type is tested before the number
EpisodeCandidateTypeFirst(season_index, ep, final_season_index, tmdb_status) ==
    IF Lower(ep.episode_type) = "mid_season" THEN "Mid-Season Finale"
    ELSE IF Lower(ep.episode_type) = "finale"
         THEN FinaleLabel(season_index, final_season_index, tmdb_status)
    ELSE IF season_index = 1 /\ ep.episode_number = 1 THEN "Pilot"
    ELSE IF ep.episode_number = 1 THEN "Season Premiere"
    ELSE ""

\* lines 380-389: the label of one aired episode
EpisodeCandidate(season_index, ep, final_season_index, tmdb_status) ==
    IF season_index = 1 /\ ep.episode_number = 1 THEN "Pilot"
    ELSE IF ep.episode_number = 1 THEN "Season Premiere"
    ELSE IF Lower(ep.episode_type) = "mid_season" THEN "Mid-Season Finale"
    ELSE IF Lower(ep.episode_type) = "finale"
         THEN FinaleLabel(season_index, final_season_index, tmdb_status)
    ELSE ""

\* lines 370-391: the dict episode_number -> candidate; a later entry of the same
\* number overwrites an earlier one
CandidateEpisodes(season_index, tmdb_episodes, today, final_season_index, tmdb_status) ==
    LET hit(i) == /\ IsAired(tmdb_episodes[i], today)
                  /\ EpisodeCandidate(season_index, tmdb_episodes[i],
                                      final_season_index, tmdb_status) # ""
        hits == {i \in DOMAIN tmdb_episodes : hit(i)}
        nums == {tmdb_episodes[i].episode_number : i \in hits}
        last(n) == CHOOSE i \in hits :
                      /\ tmdb_episodes[i].episode_number = n
                      /\ \A j \in hits : tmdb_episodes[j].episode_number = n => j <= i
    IN  [n \in nums |-> EpisodeCandidate(season_index, tmdb_episodes[last(n)],
                                         final_season_index, tmdb_status)]

(***************************************************************************)
(* The main processing loop for one show (lines 269-414)                   *)
(***************************************************************************)
SetMax(S) == CHOOSE m \in S : \A x \in S : x <= m

\* line 293
LatestSeason == SetMax(PlexSeasons)

\* update_log.get(tmdb_id)
LogGet(update_log, id) == IF id \in DOMAIN update_log THEN update_log[id] ELSE 0

\* faulty variant of lines 298-303: an episode aired at the logged instant reruns
ShouldProcessInclusive(update_log, last_air_date) ==
    LET last_updated_dt == LogGet(update_log, TmdbId)
        is_rerun == /\ last_updated_dt # 0
                    /\ last_air_date # 0
                    /\ Midnight(last_air_date) >= last_updated_dt
    IN  last_updated_dt = 0 \/ is_rerun

\* lines 298-303
ShouldProcess(update_log, last_air_date) ==
    LET last_updated_dt == LogGet(update_log, TmdbId)
        is_rerun == /\ last_updated_dt # 0
                    /\ last_air_date # 0
                    /\ Midnight(last_air_date) > last_updated_dt
    IN  last_updated_dt = 0 \/ is_rerun

\* lines 309-321: the seasons of the library (index not 0) found in the batch
\* response; the library has fewer than 20 seasons, so chunks() yields one batch
AllTmdbData(seasons, batch_http) ==
    LET season_numbers == {n \in PlexSeasons : n # 0}
        found == IF batch_http = 200 THEN season_numbers \cap DOMAIN seasons ELSE {}
    IN  [n \in found |-> seasons[n]]

\* faulty variant of line 324: the library's latest season, fetched or not
FinalSeasonIndexOfLibrary(all_tmdb_data) == LatestSeason

\* line 324
FinalSeasonIndex(all_tmdb_data) == SetMax(DOMAIN all_tmdb_data)

\* lines 393-401: season.episode(n) fails for an episode the library lacks
ProcessEpisodes(w, s, candidate_episodes) ==
    LET targets == DOMAIN candidate_episodes \cap PlexEpisodes
        res == [e \in targets |->
                  SetEpisodeSpecialLabels(w, EpisodeEnt(s, e), {candidate_episodes[e]})]
        touched == {EpisodeEnt(s, e) : e \in targets}
    IN  [w |-> [w EXCEPT
                  !.labels = [ent \in Entities |->
                                IF ent \in touched THEN res[ent[3]].w.labels[ent]
                                ELSE w.labels[ent]],
                  !.ops = w.ops \cup UNION {res[e].w.ops : e \in targets},
                  !.failed = w.failed \cup UNION {res[e].w.failed : e \in targets}],
         modified |-> \E e \in targets : res[e].modified]

\* lines 359-363
ReconcileSeason(w, s, season_label) ==
    IF season_label # "" THEN SetLabel(w, SeasonEnt(s), season_label)
    ELSE [w |-> RemoveAllSpecialLabels(w, SeasonEnt(s)), modified |-> FALSE]

\* lines 329-401: one iteration of the season loop
ProcessSeason(acc, s, all_tmdb_data, final_season_index, tmdb_status, today_) ==
    IF acc.w.raised \/ s \notin DOMAIN all_tmdb_data THEN acc
    ELSE LET tmdb_episodes == all_tmdb_data[s]
             aired_episodes == AiredEpisodes(tmdb_episodes, today_)
         IN  IF aired_episodes = <<>>
             THEN [acc EXCEPT !.w = RemoveAllSpecialLabels(acc.w, SeasonEnt(s))]
             ELSE LET season_label == SeasonCandidate(s, LastEp(aired_episodes),
                                                      final_season_index, tmdb_status)
                      r == ReconcileSeason(acc.w, s, season_label)
                      cands == CandidateEpisodes(s, tmdb_episodes, today_,
                                                 final_season_index, tmdb_status)
                      e == ProcessEpisodes(r.w, s, cands)
                  IN  IF r.w.raised THEN [acc EXCEPT !.w = r.w]
                      ELSE
                      [w |-> e.w,
                       any_modified |-> acc.any_modified \/ r.modified \/ e.modified,
                       latest_season_label |->
                           IF s = LatestSeason THEN season_label
                           ELSE acc.latest_season_label]

RECURSIVE SeasonLoop(_, _, _, _, _, _)
SeasonLoop(acc, i, all_tmdb_data, final_season_index, tmdb_status, today_) ==
    IF i > Len(PlexSeasonSeq) THEN acc
    ELSE SeasonLoop(ProcessSeason(acc, PlexSeasonSeq[i], all_tmdb_data,
                                  final_season_index, tmdb_status, today_),
                    i + 1, all_tmdb_data, final_season_index, tmdb_status, today_)

\* faulty variant of lines 403-407: without a label for the latest season the show
\* is left as it is
ReconcileShowKeepStale(acc) ==
    IF acc.w.raised \/ acc.latest_season_label = "" THEN acc
    ELSE LET r == SetLabel(acc.w, ShowEnt, acc.latest_season_label)
         IN  [acc EXCEPT !.w = r.w, !.any_modified = acc.any_modified \/ r.modified]

\* lines 403-407
ReconcileShow(acc) ==
    IF acc.w.raised THEN acc
    ELSE IF acc.latest_season_label # ""
    THEN LET r == SetLabel(acc.w, ShowEnt, acc.latest_season_label)
         IN  [acc EXCEPT !.w = r.w, !.any_modified = acc.any_modified \/ r.modified]
    ELSE [acc EXCEPT !.w = RemoveAllSpecialLabels(acc.w, ShowEnt)]

\* faulty variant of lines 409-410: an entry already logged is kept
WriteLogKeepFirst(update_log, any_modified, now) ==
    IF any_modified /\ TmdbId \notin DOMAIN update_log
    THEN [id \in DOMAIN update_log \cup {TmdbId} |->
             IF id = TmdbId THEN now ELSE update_log[id]]
    ELSE update_log

\* faulty variant of lines 409-410: the entry is written whether or not a label changed
WriteLogAlways(update_log, any_modified, now) ==
    [id \in DOMAIN update_log \cup {TmdbId} |-> IF id = TmdbId THEN now ELSE update_log[id]]

\* lines 409-410
WriteLog(update_log, any_modified, now) ==
    IF any_modified
    THEN [id \in DOMAIN update_log \cup {TmdbId} |->
             IF id = TmdbId THEN now ELSE update_log[id]]
    ELSE update_log

\* lines 272-414: the pass over the show
ProcessShow(cfg, w, update_log, t, today_, now) ==
    IF t.http # 200
    THEN [w |-> w, update_log |-> update_log, outcome |-> "fetch_failed"]
    ELSE
    LET tmdb_status == Lower(t.status)
        w1 == SetStatusLabel(cfg, w, t.next_episode_to_air, tmdb_status, LatestSeason, today_)
        all_tmdb_data == AllTmdbData(t.seasons, t.batch_http)
    IN  IF w1.raised
        THEN [w |-> w1, update_log |-> update_log, outcome |-> "error"]
        ELSE IF ~ShouldProcess(update_log, t.last_air_date)
        THEN [w |-> w1, update_log |-> update_log, outcome |-> "skipped"]
        ELSE IF DOMAIN all_tmdb_data = {}
        \* max() of an empty sequence raises; the except clause of line 413 ends the pass
        THEN [w |-> w1, update_log |-> update_log, outcome |-> "error"]
        ELSE LET acc0 == [w |-> w1, any_modified |-> FALSE, latest_season_label |-> ""]
                 acc1 == SeasonLoop(acc0, 1, all_tmdb_data,
                                    FinalSeasonIndex(all_tmdb_data), tmdb_status, today_)
                 acc2 == ReconcileShow(acc1)
             IN  IF acc2.w.raised
                 THEN [w |-> acc2.w, update_log |-> update_log, outcome |-> "error"]
                 ELSE [w |-> acc2.w,
                       update_log |-> WriteLog(update_log, acc2.any_modified, now),
                       outcome |-> "done"]

\* lines 269-276 and 413-414: one iteration of the loop over the shows; a show without
\* a TMDb id is passed over, an exception of the pass ends at the except clause
VisitShow(acc, show, cfg, t, today_, now) ==
    IF GetTmdbId(show) = "" THEN [acc EXCEPT !.visited = Append(@, show)]
    ELSE LET r == ProcessShow(cfg, acc.w, acc.update_log, t, today_, now)
         IN  [w |-> [r.w EXCEPT !.raised = FALSE], update_log |-> r.update_log,
              outcome |-> r.outcome, visited |-> Append(acc.visited, show)]

\* faulty variant of the loop: an exception of a pass leaves the loop
RECURSIVE VisitShowsUntilError(_, _, _, _, _, _)
VisitShowsUntilError(acc, i, cfg, t, today_, now) ==
    IF i > Len(AllShows) \/ acc.outcome = "error" THEN acc
    ELSE VisitShowsUntilError(VisitShow(acc, AllShows[i], cfg, t, today_, now),
                              i + 1, cfg, t, today_, now)
MainLoopUntilError(cfg, w, update_log, t, today_, now) ==
    VisitShowsUntilError([w |-> w, update_log |-> update_log, outcome |-> "idle",
                          visited |-> <<>>], 1, cfg, t, today_, now)

RECURSIVE VisitShows(_, _, _, _, _, _)
VisitShows(acc, i, cfg, t, today_, now) ==
    IF i > Len(AllShows) THEN acc
    ELSE VisitShows(VisitShow(acc, AllShows[i], cfg, t, today_, now),
                    i + 1, cfg, t, today_, now)

\* lines 269-414: for idx, show in enumerate(all_shows)
MainLoop(cfg, w, update_log, t, today_, now) ==
    VisitShows([w |-> w, update_log |-> update_log, outcome |-> "idle",
                visited |-> <<>>], 1, cfg, t, today_, now)

(***************************************************************************)
(* --clear (lines 101-126)                                                 *)
(***************************************************************************)
ClearLabels(ent) == IF ent = ShowEnt THEN SPECIAL_LABELS \cup STATUS_LABELS ELSE SPECIAL_LABELS

ClearAll(w) ==
    [w EXCEPT !.labels = [ent \in Entities |-> w.labels[ent] \ ClearLabels(ent)],
              !.ops = UNION {{Op(ent, "remove", l, "clear")
                                : l \in w.labels[ent] \cap ClearLabels(ent)}
                             : ent \in Entities}]

(***************************************************************************)
(* State                                                                   *)
(***************************************************************************)
VARIABLES
    config,    \* the date formatting options of lines 16-19
    labels,    \* the label set of every entity, as stored by Plex
    broken,    \* the entities on which a call to Plex raises
    logFile,   \* LOG_PATH: whether the file exists, and the update log it holds
    tmdb,      \* what TMDb answers for the show: the series request (its status code,
               \* status, last_air_date, next_episode_to_air) and the season batch
               \* request (its status code, the episode list of every season it knows)
    today,     \* date.today()
    ops,       \* the addLabel / removeLabel calls of the latest run
    outcome,   \* how the latest run ended for the show; "idle" once TMDb or the
               \* date changed after it
    stamp,     \* datetime.now() of the latest run
    before,    \* the update log the latest run loaded
    failed,    \* the entities on which a call of the latest run raised
    visited,   \* the shows the latest run's loop reached, in order
    fresh,     \* the latest step was a normal run: TMDb and the date are as it saw them
    runs       \* number of runs so far

vars ==
    <<config, labels, broken, logFile, tmdb, today, ops, outcome, stamp, before,
      failed, visited, fresh, runs>>

EmptyLog == [id \in {} |-> 0]

Ep(n, d, t) == [episode_number |-> n, air_date |-> d, episode_type |-> t]
NextEp(d, s, e) == <<[air_date |-> d, season_number |-> s, episode_number |-> e]>>

(***************************************************************************)
(* Bounded inputs                                                          *)
(***************************************************************************)
RawStatuses == {"", "Ended", "In Production"}
LastAirDates == {0, Day0, Day0 + 1}
NextEps == {<<>>, NextEp(Day0 + 7, 3, 2), NextEp(Day0 + 7, 3, 1), NextEp(Day0 + 8, 3, 2)}

\* episode lists of a season as TMDb returns them
AiredPair == <<Ep(1, Day0 - 1, "standard"), Ep(2, Day0 - 1, "finale")>>
Airing == <<Ep(1, Day0 - 1, "standard"), Ep(2, Day0 + 1, "mid_season")>>
MainSeasons ==
    {[n \in {1, 2, 3} |-> AiredPair],
     [n \in {1, 2, 3} |-> IF n < 3 THEN AiredPair ELSE Airing]}

\* labels found on the entities before the first run: none; a user's own labels and
\* labels of an earlier run on the show; labels of an earlier run everywhere
LabelInit ==
    {[ent \in Entities |-> {}],
     [ent \in Entities |->
        IF ent = ShowEnt
        THEN {"Returning Favorites", "New Episode " \o Weekday(Day0 + 7),
              "Status: In Production"}
        ELSE {}],
     [ent \in Entities |->
        IF ent[1] = "show" THEN {"Status: Ended", "Season Finale"}
        ELSE IF ent[1] = "season"
             THEN {"Season Premiere", "New Season " \o StrfMonthDay(Day0 + 8)}
        ELSE {"Series Finale"}]}
LogInit ==
    {[exists |-> FALSE, entries |-> EmptyLog],
     [exists |-> TRUE, entries |-> [id \in {OtherId} |-> Instant(Day0 - 1, 1)]],
     [exists |-> TRUE, entries |-> [id \in {TmdbId, OtherId} |-> Instant(Day0, 0)]]}

\* TMDb or the date changed: the record of the latest run is dropped
Forget ==
    /\ ops' = {}
    /\ outcome' = "idle"
    /\ stamp' = 0
    /\ before' = EmptyLog
    /\ failed' = {}
    /\ visited' = <<>>
    /\ fresh' = FALSE

Init ==
    /\ config = DefaultConfig
    /\ labels \in LabelInit
    /\ broken = {}
    /\ logFile \in LogInit
    /\ tmdb \in [http : {200}, status : RawStatuses, last_air_date : LastAirDates,
                 next_episode_to_air : NextEps, batch_http : {200}, seasons : MainSeasons]
    /\ today = Day0
    /\ ops = {}
    /\ outcome = "idle"
    /\ stamp = 0
    /\ before = EmptyLog
    /\ failed = {}
    /\ visited = <<>>
    /\ fresh = FALSE
    /\ runs = 0

(***************************************************************************)
(* Actions                                                                 *)
(***************************************************************************)
\* lines 128-133
LoadLog == IF logFile.exists THEN logFile.entries ELSE EmptyLog

\* a normal run: load the log, process the show, save the log (lines 128-417)
RunNormal ==
    /\ runs < MaxRuns
    /\ \E tod \in TimesOfDay :
          LET now == Instant(today, tod)
              w0 == [labels |-> labels, cache |-> labels[ShowEnt], ops |-> {},
                     broken |-> broken, failed |-> {}, raised |-> FALSE]
          IN  \E r \in {MainLoop(config, w0, LoadLog, tmdb, today, now)} :
                  /\ labels' = r.w.labels
                  /\ ops' = r.w.ops
                  /\ failed' = r.w.failed
                  /\ visited' = r.visited
                  /\ outcome' = r.outcome
                  /\ logFile' = [exists |-> TRUE, entries |-> r.update_log]
                  /\ stamp' = now
    /\ before' = LoadLog
    /\ fresh' = TRUE
    /\ runs' = runs + 1
    /\ UNCHANGED <<config, broken, tmdb, today>>

\* a run with --clear (lines 101-126): clear the labels, delete the log, exit
RunClear ==
    /\ runs < MaxRuns
    /\ LET w == ClearAll([labels |-> labels, cache |-> labels[ShowEnt], ops |-> {}])
       IN  /\ labels' = w.labels
           /\ ops' = w.ops
    /\ failed' = {}
    /\ visited' = <<>>
    /\ logFile' = [exists |-> FALSE, entries |-> EmptyLog]
    /\ outcome' = "cleared"
    /\ stamp' = 0
    /\ before' = LoadLog
    /\ fresh' = FALSE
    /\ runs' = runs + 1
    /\ UNCHANGED <<config, broken, tmdb, today>>

\* between two runs TMDb's answer changes in one respect
ProviderUpdate ==
    /\ runs < MaxRuns
    /\ outcome # "idle"
    /\ \/ \E x \in RawStatuses \ {tmdb.status} : tmdb' = [tmdb EXCEPT !.status = x]
       \/ \E x \in LastAirDates \ {tmdb.last_air_date} :
             tmdb' = [tmdb EXCEPT !.last_air_date = x]
       \/ \E x \in NextEps \ {tmdb.next_episode_to_air} :
             tmdb' = [tmdb EXCEPT !.next_episode_to_air = x]
       \/ \E x \in {200, 404} \ {tmdb.http} : tmdb' = [tmdb EXCEPT !.http = x]
       \/ \E x \in {200, 500} \ {tmdb.batch_http} : tmdb' = [tmdb EXCEPT !.batch_http = x]
    /\ Forget
    /\ UNCHANGED <<config, labels, broken, logFile, today, runs>>

\* between two runs a day passes
Tick ==
    /\ runs < MaxRuns
    /\ outcome # "idle"
    /\ today' = today + 1
    /\ Forget
    /\ UNCHANGED <<config, labels, broken, logFile, tmdb, runs>>

Next == RunNormal \/ RunClear \/ ProviderUpdate \/ Tick

Spec == Init /\ [][Next]_vars

\* the same runs over a library that carries no label yet
InitUnlabelled == Init /\ \A ent \in Entities : labels[ent] = {}
SpecUnlabelled == InitUnlabelled /\ [][Next]_vars

(***************************************************************************)
(* Runs over a wide choice of season data: every season's episode list,    *)
(* in TMDb's order, with aired, unaired and undated episodes of each type  *)
(***************************************************************************)
EpisodeTypes == {"standard", "mid_season", "finale"}
FirstEpisodes == {Ep(1, d, t) : d \in {Day0 - 1, Day0 + 1}, t \in EpisodeTypes}
SecondEpisodes == {Ep(2, d, t) : d \in {0, Day0 - 1, Day0 + 1}, t \in EpisodeTypes}
\* an episode the library does not hold
MissingEpisode == Ep(4, Day0 - 1, "finale")
\* a season of three episodes: a first one, a standard one and a finale
ThreeEpisodes ==
    {<<a, Ep(2, Day0 - 1, "standard"), Ep(3, d, "finale")>>
        : a \in FirstEpisodes, d \in {Day0 - 1, Day0 + 1}}
EpisodeLists ==
    {<<>>} \cup {<<a>> : a \in FirstEpisodes}
           \cup {<<a, b>> : a \in FirstEpisodes, b \in SecondEpisodes}
           \cup {<<b, a>> : a \in FirstEpisodes, b \in SecondEpisodes}
           \cup {<<a, MissingEpisode>> : a \in FirstEpisodes}
           \cup ThreeEpisodes
ClassifySeasons ==
    {[n \in {1, 2, 3} |-> IF n = 1 THEN x ELSE AiredPair] : x \in EpisodeLists}
      \cup {[n \in {1, 2, 3} |-> IF n = 3 THEN x ELSE AiredPair] : x \in EpisodeLists}
      \cup {[n \in {1} |-> x] : x \in EpisodeLists}
      \cup {[n \in {3} |-> x] : x \in EpisodeLists}

InitClassify ==
    /\ config = DefaultConfig
    /\ labels \in LabelInit
    /\ broken = {}
    /\ logFile = [exists |-> FALSE, entries |-> EmptyLog]
    /\ tmdb \in [http : {200}, status : {"Ended", "Canceled", "In Production"},
                 last_air_date : {Day0 - 1}, next_episode_to_air : {<<>>},
                 batch_http : {200}, seasons : ClassifySeasons]
    /\ today = Day0
    /\ ops = {}
    /\ outcome = "idle"
    /\ stamp = 0
    /\ before = EmptyLog
    /\ failed = {}
    /\ visited = <<>>
    /\ fresh = FALSE
    /\ runs = 0

NextClassify == RunNormal

SpecClassify == InitClassify /\ [][NextClassify]_vars

(***************************************************************************)
(* Runs over a wide choice of next episodes and of date formatting         *)
(* options: air dates on both sides of every window's end                  *)
(***************************************************************************)
Configs ==
    [DATE_FORMAT : {"MM/DD", "DD/MM"}, DAY_INDICATOR : BOOLEAN,
     DAYS_TO_CONSIDER : {0, DAYS_TO_CONSIDER, 10}, RETURNING_DAYS : {11, RETURNING_DAYS}]
\* the days from today to the air date
DaysAhead == {-1, 0, 1, 7, 8, 10, 11, 12, 28, 29}
UpcomingNextEps ==
    {NextEp(Day0 + d, s, e) : d \in DaysAhead, s \in {2, 3}, e \in {1, 2}}
      \cup {<<>>, NextEp(0, 3, 2), NextEp(Day0 + 1, 0, 2), NextEp(Day0 + 1, 3, 0)}

InitUpcoming ==
    /\ config \in Configs
    /\ labels \in LabelInit
    /\ broken = {}
    /\ logFile = [exists |-> FALSE, entries |-> EmptyLog]
    /\ tmdb \in [http : {200}, status : {"Ended"}, last_air_date : {Day0 - 1},
                 next_episode_to_air : UpcomingNextEps, batch_http : {200},
                 seasons : {[n \in {1, 2, 3} |-> AiredPair]}]
    /\ today = Day0
    /\ ops = {}
    /\ outcome = "idle"
    /\ stamp = 0
    /\ before = EmptyLog
    /\ failed = {}
    /\ visited = <<>>
    /\ fresh = FALSE
    /\ runs = 0

NextUpcoming == RunNormal

SpecUpcoming == InitUpcoming /\ [][NextUpcoming]_vars

(***************************************************************************)
(* Runs in which TMDb requests fail and calls to Plex raise                *)
(***************************************************************************)
FaultSets ==
    {{}, {EpisodeEnt(3, 2)}, {EpisodeEnt(1, 1), EpisodeEnt(3, 2)}, {SeasonEnt(1)},
     {SeasonEnt(3)}}

InitFaults ==
    /\ config = DefaultConfig
    /\ labels \in LabelInit
    /\ broken \in FaultSets
    /\ logFile \in LogInit
    /\ tmdb \in [http : {200, 404}, status : {"Ended"}, last_air_date : {Day0 + 1},
                 next_episode_to_air : {<<>>, NextEp(Day0 + 7, 3, 2)},
                 batch_http : {200, 500}, seasons : MainSeasons]
    /\ today = Day0
    /\ ops = {}
    /\ outcome = "idle"
    /\ stamp = 0
    /\ before = EmptyLog
    /\ failed = {}
    /\ visited = <<>>
    /\ fresh = FALSE
    /\ runs = 0

\* between two runs Plex recovers
PlexRecovers ==
    /\ runs < MaxRuns
    /\ outcome # "idle"
    /\ broken # {}
    /\ broken' = {}
    /\ UNCHANGED <<config, labels, logFile, tmdb, today, ops, outcome, stamp, before,
                   failed, visited, fresh, runs>>

NextFaults == RunNormal \/ PlexRecovers

SpecFaults == InitFaults /\ [][NextFaults]_vars

(***************************************************************************)
(* The three managed vocabularies, as the specification defines them       *)
(***************************************************************************)
IsSpecial(l) == l \in SPECIAL_LABELS
\* 'Status: ' followed by the provider's status text
IsStatus(l) == StartsWith(l, "Status: ")
\* a prefix, a blank and a formatted date (a weekday name or a numeric date)
DateTexts ==
    {Weekday(d) : d \in 1..7} \cup {StrfMonthDay(d) : d \in 1..60}
                              \cup {StrfDayMonth(d) : d \in 1..60}
UpcomingLabels ==
    {p \o " " \o f : p \in {"New Episode", "New Season", "Returning"}, f \in DateTexts}
IsUpcoming(l) == l \in UpcomingLabels
IsManaged(l) == IsSpecial(l) \/ IsStatus(l) \/ IsUpcoming(l)

NormalRunEnded == outcome \in {"fetch_failed", "skipped", "error", "done"}
\* the step is a normal run: the only steps that count a run are RunNormal and RunClear
NormalRunStep == runs' = runs + 1 /\ outcome' # "cleared"

(***************************************************************************)
(* C1 - Idempotence of a processing pass: a pass that follows a pass with  *)
(* TMDb's answer and the date unchanged issues no addLabel and no          *)
(* removeLabel on any entity.                                              *)
(***************************************************************************)
C1_Idempotent == [][(fresh /\ RunNormal) => ops' = {}]_vars

(***************************************************************************)
(* C2 - Exclusivity: every show, season and episode carries at most one    *)
(* Special label, at most one Status label and at most one Upcoming label. *)
(***************************************************************************)
C2_Exclusive ==
    \A ent \in Entities :
        /\ Cardinality({l \in labels[ent] : IsSpecial(l)}) <= 1
        /\ Cardinality({l \in labels[ent] : IsStatus(l)}) <= 1
        /\ Cardinality({l \in labels[ent] : IsUpcoming(l)}) <= 1

(***************************************************************************)
(* C3 - ChangeGate decision: a pass that reaches the gate skips the series *)
(* exactly when the loaded log holds an entry for it and lastAirDate is    *)
(* absent or not strictly later than that entry; otherwise it goes on to   *)
(* the seasons.  A skipped series keeps its entry's value.                 *)
(***************************************************************************)
HasEntry(log) == TmdbId \in DOMAIN log
AiredSince(log) ==
    tmdb.last_air_date # 0 /\ Midnight(tmdb.last_air_date) > log[TmdbId]
C3_GateDecision ==
    outcome \in {"skipped", "error", "done"} =>
        /\ outcome = "skipped" <=> (HasEntry(before) /\ ~AiredSince(before))
        /\ outcome = "skipped" => logFile = [exists |-> TRUE, entries |-> before]

\* a series skipped although lastAirDate is the very instant of its entry
C3_Witness ==
    /\ outcome = "skipped"
    /\ HasEntry(before)
    /\ tmdb.last_air_date # 0
    /\ Midnight(tmdb.last_air_date) = before[TmdbId]

(***************************************************************************)
(* C4 - as claimed: a series skipped by the ChangeGate undergoes no label  *)
(* mutation in that pass.                                                  *)
(***************************************************************************)
C4_SkipMutatesNothing == outcome = "skipped" => ops = {}

(***************************************************************************)
(* C4 - as amended: in a pass that skips the series no Special label is    *)
(* added or removed on the show, a season or an episode, and the label     *)
(* sets of the episodes and of the seasons other than the latest one are   *)
(* unchanged; the changes of the pass are Status and Upcoming changes on   *)
(* the show and Upcoming changes on the latest season.                     *)
(***************************************************************************)
C4_SkipKeepsSpecial ==
    [][(NormalRunStep /\ outcome' = "skipped") =>
          /\ \A ent \in Entities :
                /\ labels'[ent] \cap SPECIAL_LABELS = labels[ent] \cap SPECIAL_LABELS
                /\ ent \notin {ShowEnt, SeasonEnt(LatestSeason)} => labels'[ent] = labels[ent]
          /\ \A o \in ops' : ~IsSpecial(o.label)]_vars

\* a skipped pass that changed a label while a season's Special label is stale
C4_Witness ==
    /\ outcome = "skipped"
    /\ ops # {}
    /\ "Season Premiere" \in labels[SeasonEnt(1)]

(***************************************************************************)
(* C5 - as claimed: whenever a pass adds or removes at least one label and *)
(* ends without an exception, the UpdateLog entry of the series is set to  *)
(* the current time of that pass.                                          *)
(***************************************************************************)
EntryIsNow == logFile.exists /\ HasEntry(logFile.entries) /\ logFile.entries[TmdbId] = stamp
C5_AnyChangeIsLogged == (outcome \in {"skipped", "done"} /\ ops # {}) => EntryIsNow

(***************************************************************************)
(* C5 - as amended: whenever a pass that passes the ChangeGate and ends    *)
(* without an exception adds a Special label, or removes a Special label   *)
(* from an entity that carries a Special label after the pass, the         *)
(* UpdateLog entry of the series is set to the current time of that pass.  *)
(***************************************************************************)
C5_SpecialChangeIsLogged ==
    (outcome = "done" /\ \E o \in ops : IsSpecial(o.label)
                                          /\ labels[o.ent] \cap SPECIAL_LABELS # {})
        => EntryIsNow

\* a pass let through by the gate with an older entry that replaced a Special label
C5_Witness ==
    /\ outcome = "done"
    /\ HasEntry(before)
    /\ before[TmdbId] # stamp
    /\ \E o \in ops : o.op = "remove" /\ IsSpecial(o.label)
                        /\ labels[o.ent] \cap SPECIAL_LABELS # {}

(***************************************************************************)
(* C6 - a normal run creates or overwrites the entry of the series only if *)
(* it added or removed a label of the series, and the saved log keeps      *)
(* every key of the loaded log (with the value of every other series).     *)
(***************************************************************************)
C6_LogWrites ==
    NormalRunEnded =>
        /\ logFile.exists
        /\ DOMAIN before \subseteq DOMAIN logFile.entries
        /\ \A id \in DOMAIN before \ {TmdbId} : logFile.entries[id] = before[id]
        /\ (LogGet(logFile.entries, TmdbId) # LogGet(before, TmdbId)) => ops # {}

\* a run that created the entry of the series beside another series' entry
C6_Witness ==
    /\ outcome = "done"
    /\ OtherId \in DOMAIN before
    /\ ~HasEntry(before)
    /\ HasEntry(logFile.entries)

(***************************************************************************)
(* C7 - Clear-all postcondition: after --clear no show, season or episode  *)
(* carries a Special label or a Status label ('Status: ' + any status      *)
(* text), and the update log file no longer exists.                        *)
(***************************************************************************)
C7_ClearAll ==
    outcome = "cleared" =>
        /\ \A ent \in Entities : \A l \in labels[ent] : ~IsSpecial(l) /\ ~IsStatus(l)
        /\ ~logFile.exists

(***************************************************************************)
(* C8 - Frame of unmanaged labels: no run adds or removes a label outside  *)
(* the three managed vocabularies, and reconciling one vocabulary never    *)
(* removes a label of another vocabulary.                                  *)
(***************************************************************************)
C8_Frame ==
    \A o \in ops :
        /\ IsManaged(o.label)
        /\ o.by \in {"set_label", "remove_all_special_labels", "set_episode_special_labels"}
              => IsSpecial(o.label)
        /\ o.by = "set_status_label" => ~IsSpecial(o.label)

(***************************************************************************)
(* What a processed pass saw: the seasons fetched, their aired episodes    *)
(***************************************************************************)
FetchedSeasons == DOMAIN tmdb.seasons \cap PlexSeasons
AiredOf(s) ==
    {tmdb.seasons[s][i] : i \in {j \in DOMAIN tmdb.seasons[s] :
                                   /\ tmdb.seasons[s][j].air_date # 0
                                   /\ tmdb.seasons[s][j].air_date <= today}}
\* the aired episode with the highest number
LastAiredOf(s) ==
    CHOOSE ep \in AiredOf(s) : \A x \in AiredOf(s) : x.episode_number <= ep.episode_number
SpecialOf(ent) == labels[ent] \cap SPECIAL_LABELS
SpecialAddsOn(ent) == {o \in ops : o.ent = ent /\ o.op = "add" /\ IsSpecial(o.label)}

(***************************************************************************)
(* C9 - Classifier priority, first match wins, at the season level and at  *)
(* the episode level: episode number 1 gives 'Pilot' in season 1 and       *)
(* 'Season Premiere' otherwise; otherwise type mid_season gives            *)
(* 'Mid-Season Finale'; otherwise type finale gives a finale label;        *)
(* otherwise none.  No entity is assigned two Special labels.              *)
(***************************************************************************)
PriorityClass(ep, s) ==
    IF ep.episode_number = 1 THEN (IF s = 1 THEN "Pilot" ELSE "Season Premiere")
    ELSE IF ep.episode_type = "mid_season" THEN "Mid-Season Finale"
    ELSE IF ep.episode_type = "finale" THEN "finale"
    ELSE "none"
CarriesClass(ent, class) ==
    CASE class = "finale" -> SpecialOf(ent) \in {{"Season Finale"}, {"Series Finale"}}
      [] class = "none" -> SpecialAddsOn(ent) = {}
      [] OTHER -> SpecialOf(ent) = {class}
C9_Priority ==
    outcome = "done" =>
        /\ \A s \in FetchedSeasons :
              /\ \A ep \in AiredOf(s) :
                    ep.episode_number \in PlexEpisodes =>
                        CarriesClass(EpisodeEnt(s, ep.episode_number), PriorityClass(ep, s))
              /\ AiredOf(s) # {} =>
                    /\ CarriesClass(SeasonEnt(s), PriorityClass(LastAiredOf(s), s))
                    /\ PriorityClass(LastAiredOf(s), s) = "none" => SpecialOf(SeasonEnt(s)) = {}
        /\ \A ent \in Entities : Cardinality(SpecialAddsOn(ent)) <= 1

\* a processed season whose aired first episode is of type finale
C9_Witness ==
    /\ outcome = "done"
    /\ \E s \in FetchedSeasons : \E ep \in AiredOf(s) :
          /\ ep.episode_number = 1
          /\ ep.episode_type = "finale"
          /\ LastAiredOf(s) = ep
          /\ SpecialAddsOn(EpisodeEnt(s, 1)) # {}

(***************************************************************************)
(* C10 - Season finale versus series finale: an aired episode of type      *)
(* finale with a number other than 1 is labelled 'Series Finale' exactly   *)
(* when its season is the highest-numbered season fetched in this pass and *)
(* the series' status is 'ended' or 'canceled', and 'Season Finale' in     *)
(* every other case; so is the season whose last aired episode it is.      *)
(***************************************************************************)
IsFinaleUnit(ep) == ep.episode_number # 1 /\ ep.episode_type = "finale"
FinaleKind(s) ==
    IF /\ \A x \in FetchedSeasons : x <= s
       /\ tmdb.status \in {"Ended", "Canceled"}
    THEN "Series Finale" ELSE "Season Finale"
C10_FinaleKind ==
    outcome = "done" =>
        \A s \in FetchedSeasons :
            /\ \A ep \in AiredOf(s) :
                  (IsFinaleUnit(ep) /\ ep.episode_number \in PlexEpisodes) =>
                      SpecialOf(EpisodeEnt(s, ep.episode_number)) = {FinaleKind(s)}
            /\ (AiredOf(s) # {} /\ IsFinaleUnit(LastAiredOf(s))) =>
                  SpecialOf(SeasonEnt(s)) = {FinaleKind(s)}

\* a series finale in a season that is not the library's latest season
C10_Witness ==
    /\ outcome = "done"
    /\ FetchedSeasons = {1}
    /\ AiredOf(1) # {}
    /\ IsFinaleUnit(LastAiredOf(1))
    /\ SpecialOf(SeasonEnt(1)) = {"Series Finale"}
    /\ SpecialOf(EpisodeEnt(1, 2)) = {"Series Finale"}

(***************************************************************************)
(* What a pass saw of the next episode, and what it did about it           *)
(***************************************************************************)
NextEpComplete ==
    /\ tmdb.next_episode_to_air # <<>>
    /\ tmdb.next_episode_to_air[1].air_date # 0
    /\ tmdb.next_episode_to_air[1].season_number # 0
    /\ tmdb.next_episode_to_air[1].episode_number # 0
AirDate == tmdb.next_episode_to_air[1].air_date
DaysUntil == AirDate - today
\* the kind of Upcoming label the windows call for
UpcomingKind ==
    IF ~NextEpComplete THEN "none"
    ELSE IF DaysUntil <= config.DAYS_TO_CONSIDER
         THEN IF /\ tmdb.next_episode_to_air[1].season_number = LatestSeason
                 /\ tmdb.next_episode_to_air[1].episode_number # 1
              THEN "New Episode" ELSE "New Season"
    ELSE IF DaysUntil <= config.RETURNING_DAYS THEN "Returning"
    ELSE "none"
NumericDate == IF config.DATE_FORMAT = "MM/DD" THEN StrfMonthDay(AirDate) ELSE StrfDayMonth(AirDate)
\* the pass got past the series request, to set_status_label
ReachedStatus == outcome \in {"skipped", "error", "done"}
\* the labels with an Upcoming prefix that set_status_label added in a set of calls
UpcomingAdded(calls, ent) ==
    {o.label : o \in {x \in calls : /\ x.ent = ent
                                    /\ x.op = "add"
                                    /\ x.by = "set_status_label"
                                    /\ ~IsStatus(x.label)}}
UpcomingOn(ent) == {l \in labels[ent] : IsUpcoming(l)}
\* the text after the prefix of an Upcoming label
DateSuffix(l) ==
    IF StartsWith(l, "New Episode ") THEN SubSeq(l, Len("New Episode ") + 1, Len(l))
    ELSE IF StartsWith(l, "New Season ") THEN SubSeq(l, Len("New Season ") + 1, Len(l))
    ELSE SubSeq(l, Len("Returning ") + 1, Len(l))

(***************************************************************************)
(* C11 - Upcoming window boundaries: for a next episode with air date,     *)
(* season and episode number, daysUntil <= daysToConsider yields a New     *)
(* Episode / New Season label, daysToConsider < daysUntil <= returningDays *)
(* a Returning label, and a later date none; within the first window the   *)
(* label is New Episode exactly when the episode is of the latest season   *)
(* and its number is not 1.  The label a pass yields is the one it adds to *)
(* the show: it adds none of another kind, and adds it wherever the show   *)
(* carried no label of that kind.                                          *)
(***************************************************************************)
C11_Windows ==
    [][(NormalRunStep /\ tmdb.http = 200) =>
          LET added == UpcomingAdded(ops', ShowEnt)
          IN  /\ UpcomingKind = "none" => added = {}
              /\ \A l \in added : StartsWith(l, UpcomingKind \o " ")
              /\ (/\ UpcomingKind # "none"
                  /\ \A l \in labels[ShowEnt] : ~StartsWith(l, UpcomingKind))
                    => added # {}]_vars

\* a Returning label for an episode that airs the day after the first window ends
C11_Witness ==
    /\ ReachedStatus
    /\ NextEpComplete
    /\ DaysUntil = config.DAYS_TO_CONSIDER + 1
    /\ \E l \in UpcomingAdded(ops, ShowEnt) : StartsWith(l, "Returning ")

(***************************************************************************)
(* C12 - End-to-end 'New Episode': after a pass over a series whose next   *)
(* episode is in the latest season, is not number 1 and airs within        *)
(* daysToConsider days, whatever the labels before, the show and the       *)
(* latest season each carry 'New Episode <formatted date>' and no other    *)
(* Upcoming label.                                                         *)
(***************************************************************************)
C12_NewEpisode ==
    (ReachedStatus /\ UpcomingKind = "New Episode") =>
        \A ent \in {ShowEnt, SeasonEnt(LatestSeason)} :
            UpcomingOn(ent) =
                {"New Episode " \o (IF config.DAY_INDICATOR /\ DaysUntil <= 7
                                    THEN Weekday(AirDate) ELSE NumericDate)}

(***************************************************************************)
(* C13 - as claimed: after a processed pass over a series whose maximum    *)
(* season is season 3 with aired episodes 1, 2, 3, episode 3 of type       *)
(* finale, and status 'canceled', season 3 carries exactly 'Series         *)
(* Finale', episode 3 carries exactly 'Series Finale', and episodes 1 and  *)
(* 2 of the season carry no Special label.                                 *)
(***************************************************************************)
SpecialOps(ent) == {o \in ops : o.ent = ent /\ IsSpecial(o.label)}
C13_Scenario ==
    /\ outcome = "done"
    /\ 3 \in FetchedSeasons
    /\ \A x \in FetchedSeasons : x <= 3
    /\ tmdb.status = "Canceled"
    /\ {ep.episode_number : ep \in AiredOf(3)} = {1, 2, 3}
    /\ \A ep \in AiredOf(3) : ep.episode_number = 3 => ep.episode_type = "finale"
    /\ \A ep \in AiredOf(3) : ep.episode_number = 2 => ep.episode_type = "standard"
C13_SeriesFinaleOnly ==
    C13_Scenario =>
        /\ SpecialOf(SeasonEnt(3)) = {"Series Finale"}
        /\ SpecialOf(EpisodeEnt(3, 3)) = {"Series Finale"}
        /\ SpecialOf(EpisodeEnt(3, 1)) = {}
        /\ SpecialOf(EpisodeEnt(3, 2)) = {}

(***************************************************************************)
(* C13 - as amended: in that scenario season 3 carries exactly 'Series     *)
(* Finale', episode 3 carries exactly 'Series Finale', episode 1 carries   *)
(* exactly 'Season Premiere', and the pass adds no Special label to        *)
(* episode 2 and removes none from it.                                     *)
(***************************************************************************)
C13_SeriesFinale ==
    C13_Scenario =>
        /\ SpecialOf(SeasonEnt(3)) = {"Series Finale"}
        /\ SpecialOf(EpisodeEnt(3, 3)) = {"Series Finale"}
        /\ SpecialOf(EpisodeEnt(3, 1)) = {"Season Premiere"}
        /\ SpecialOps(EpisodeEnt(3, 2)) = {}

\* the scenario, on a season and a first episode that carried other Special labels
C13_Witness ==
    /\ C13_Scenario
    /\ \E o \in SpecialOps(SeasonEnt(3)) : o.op = "remove" /\ o.label = "Season Premiere"
    /\ \E o \in SpecialOps(EpisodeEnt(3, 1)) : o.op = "remove" /\ o.label = "Series Finale"
    /\ SpecialOf(EpisodeEnt(3, 1)) = {"Season Premiere"}
    /\ SpecialOf(EpisodeEnt(3, 3)) = {"Series Finale"}

(***************************************************************************)
(* C14 - Stale Upcoming labels are cleared: after a pass in which no       *)
(* Upcoming label is called for (no next episode, a missing air date,      *)
(* season or episode number, or daysUntil > returningDays) the show        *)
(* carries no Upcoming label; and when one is called for, the show carries *)
(* no Upcoming label other than that one.                                  *)
(***************************************************************************)
C14_StaleCleared ==
    ReachedStatus =>
        /\ UpcomingKind = "none" => UpcomingOn(ShowEnt) = {}
        /\ UpcomingKind # "none" =>
              \A l \in UpcomingOn(ShowEnt) :
                  l = UpcomingKind \o " " \o (IF config.DAY_INDICATOR /\ DaysUntil <= 7
                                              THEN Weekday(AirDate) ELSE NumericDate)

(***************************************************************************)
(* C15 - Status label reconciliation: after a pass that reaches status     *)
(* reconciliation, whatever the labels before, the show carries exactly    *)
(* one Status label, 'Status: ' followed by the title-cased status, when   *)
(* the provider status is not empty, and no Status label when it is empty. *)
(***************************************************************************)
C15_StatusLabel ==
    ReachedStatus =>
        {l \in labels[ShowEnt] : IsStatus(l)} =
            IF tmdb.status = "" THEN {} ELSE {"Status: " \o Title(Lower(tmdb.status))}

(***************************************************************************)
(* C16 - A failed label mutation is retried: a pass in which a call on an  *)
(* entity raised does not write the UpdateLog entry of the series, also    *)
(* when other entities of the series were changed in the same pass.        *)
(***************************************************************************)
C16_FailureNotLogged ==
    (NormalRunEnded /\ failed # {}) =>
        LogGet(logFile.entries, TmdbId) = LogGet(before, TmdbId)

(***************************************************************************)
(* C17 - as claimed: a failed series fetch causes no label mutation on the *)
(* series, and a failed season batch causes no label mutation on the       *)
(* seasons and episodes of the batch.                                      *)
(***************************************************************************)
BatchFailed == outcome = "error" /\ tmdb.batch_http # 200 /\ failed = {}
C17_FailedFetchMutatesNothing ==
    /\ outcome = "fetch_failed" => ops = {}
    /\ BatchFailed => \A o \in ops : o.ent = ShowEnt

(***************************************************************************)
(* C17 - as amended: whatever failures occur (a show without provider id,  *)
(* a failed series fetch, every season batch failing, an exception while   *)
(* reconciling), the run visits every show in order and saves the update   *)
(* log; a series whose pass ends in a failure keeps its UpdateLog entry or *)
(* its absence; a failed series fetch causes no label mutation; and a      *)
(* failed season batch causes no Special label mutation and no mutation on *)
(* an episode or on a season other than the latest, whose Upcoming label   *)
(* set_status_label has reconciled before the batch is fetched.            *)
(***************************************************************************)
C17_Isolation ==
    NormalRunEnded =>
        /\ visited = AllShows
        /\ logFile.exists
        /\ outcome \in {"fetch_failed", "error"} => logFile.entries = before
        /\ outcome = "fetch_failed" => ops = {}
        /\ BatchFailed =>
              \A o \in ops : /\ o.by = "set_status_label"
                             /\ o.ent \in {ShowEnt, SeasonEnt(LatestSeason)}
                             /\ ~IsSpecial(o.label)

\* a pass that ends at the failed season batch after labelling the latest season
C17_Witness ==
    /\ BatchFailed
    /\ visited = AllShows
    /\ HasEntry(before)
    /\ \E o \in ops : o.ent = SeasonEnt(LatestSeason) /\ o.op = "add"

(***************************************************************************)
(* C18 - as claimed, the threshold being the seven days of the script: the *)
(* date of an Upcoming label is the weekday name when daysUntil <= 7 and   *)
(* the numeric date in the configured format when daysUntil >= 8, under    *)
(* every configuration.                                                    *)
(***************************************************************************)
C18_WeekdayUpToThreshold ==
    ReachedStatus =>
        \A l \in UpcomingAdded(ops, ShowEnt) :
            DateSuffix(l) = IF DaysUntil <= 7 THEN Weekday(AirDate) ELSE NumericDate

(***************************************************************************)
(* C18 - as amended: the date of an Upcoming label is the weekday name     *)
(* when DAY_INDICATOR is on and daysUntil <= 7 (negative values included), *)
(* and the numeric date in the configured format (MM/DD or DD/MM) when     *)
(* DAY_INDICATOR is off or daysUntil >= 8; the seven days are fixed and    *)
(* do not depend on daysToConsider or returningDays.                       *)
(***************************************************************************)
C18_DateRendering ==
    ReachedStatus =>
        \A l \in UpcomingAdded(ops, ShowEnt) :
            DateSuffix(l) = IF config.DAY_INDICATOR /\ DaysUntil <= 7
                            THEN Weekday(AirDate) ELSE NumericDate

\* a New Episode label with a numeric date: eight days ahead, in a ten day window
C18_Witness ==
    /\ ReachedStatus
    /\ NextEpComplete
    /\ config.DAY_INDICATOR
    /\ config.DATE_FORMAT = "DD/MM"
    /\ DaysUntil = 8
    /\ "New Episode " \o StrfDayMonth(AirDate) \in UpcomingAdded(ops, ShowEnt)

(***************************************************************************)
(* C19 - Mirroring onto the latest season: whenever a pass gives the show  *)
(* a 'New Episode <date>' or 'New Season <date>' label, the latest season  *)
(* carries the same Upcoming label and no other after the pass; a          *)
(* 'Returning' label is applied to the show only.                          *)
(***************************************************************************)
C19_Mirror ==
    ReachedStatus =>
        \A l \in UpcomingAdded(ops, ShowEnt) :
            IF StartsWith(l, "Returning ")
            THEN UpcomingAdded(ops, SeasonEnt(LatestSeason)) = {}
            ELSE UpcomingOn(SeasonEnt(LatestSeason)) = {l}

(***************************************************************************)
(* C20 - Episodes without a candidate label end up without Special labels: *)
(* after a processed pass over a season, every aired episode of the season *)
(* classified 'none' carries no Special label, even if it carried one      *)
(* before.                                                                 *)
(***************************************************************************)
C20_NoneIsCleared ==
    outcome = "done" =>
        \A s \in FetchedSeasons : \A ep \in AiredOf(s) :
            (PriorityClass(ep, s) = "none" /\ ep.episode_number \in PlexEpisodes)
                => SpecialOf(EpisodeEnt(s, ep.episode_number)) = {}

(***************************************************************************)
(* C21 - Show-level Special label follows the latest season: after a pass  *)
(* that passes the ChangeGate and completes without an exception, the      *)
(* Special labels of the show are exactly the label classified for the     *)
(* latest (maximum-index) library season from its highest-numbered aired   *)
(* episode, and none when that season has no aired episode, has no         *)
(* classified label, or was not in the fetched metadata; a fetched season  *)
(* with zero aired episodes carries no Special label after the pass.       *)
(***************************************************************************)
\* the Special label classified for a fetched season with an aired episode
SeasonClassLabel(s) ==
    LET class == PriorityClass(LastAiredOf(s), s)
    IN  IF class = "none" THEN {}
        ELSE IF class = "finale" THEN {FinaleKind(s)}
        ELSE {class}
LatestSeasonLabel ==
    IF LatestSeason \in FetchedSeasons /\ AiredOf(LatestSeason) # {}
    THEN SeasonClassLabel(LatestSeason) ELSE {}
C21_ShowFollowsLatest ==
    outcome = "done" =>
        /\ SpecialOf(ShowEnt) = LatestSeasonLabel
        /\ \A s \in FetchedSeasons : AiredOf(s) = {} => SpecialOf(SeasonEnt(s)) = {}

\* a show whose stale 'Season Finale' gave way to the latest season's label, beside a
\* season without aired episodes that lost its label
C21_Witness ==
    /\ outcome = "done"
    /\ SpecialOf(ShowEnt) = {"Series Finale"}
    /\ \E o \in SpecialOps(ShowEnt) : o.op = "remove" /\ o.label = "Season Finale"
    /\ \E s \in FetchedSeasons :
          /\ AiredOf(s) = {}
          /\ \E o \in SpecialOps(SeasonEnt(s)) : o.op = "remove"

=============================================================================
